---- MODULE Spec2Model ----
(***************************************************************************)
(* Verification model of tokio-cron-scheduler:                             *)
(*   - SimpleJobScheduler        (src/src/simple/job_scheduler.rs)         *)
(*   - SimpleMetadataStore       (src/src/simple/metadata_store.rs)        *)
(*   - PostgresMetadataStore     (src/src/postgres/metadata_store.rs)      *)
(* Seven specifications share the module: Spec (registry, tick and clock), *)
(* SpecLoop (the task of start()), SpecShutdown (shutdown and its          *)
(* callback), SpecSimple (the in-memory metadata store), SpecConc (its     *)
(* calls in flight together), SpecPg (the Postgres metadata store) and     *)
(* SpecInit (init() of both stores).                                       *)
(***************************************************************************)
EXTENDS Integers, Sequences, FiniteSets, TLC

VARIABLES
    \* ---- SimpleJobScheduler ----
    jobs,              \* job_store: id -> job handle, or NoJob
    shutdown_handler,  \* the callback slot: "None", or the callback it holds
    poisoned,          \* the slot's RwLock is poisoned (a callback panicked)
    regInvoked,        \* calls of the callback since it was last registered
    regOk,             \* shutdown() calls that returned Ok since then
    registered,        \* history: the host's last two registrations <<before, latest>>
    pc,                \* "idle", or "removing" inside shutdown()'s loop
    guids,             \* shutdown(): the identifiers still to remove
    snap,              \* shutdown(): the identifiers of its snapshot
    concAdded,         \* ids added through a store clone during shutdown()
    inflight,          \* per job: executions started and not completed
    loopPc,            \* start()'s task: "none", or at its "sleep" or its "tick"
    now,               \* the clock (seconds)
    last,              \* the last call and what it returned
    \* ---- SimpleMetadataStore ----
    data,              \* the HashMap: id -> JobStoredData, or NoData
    inited,            \* the inited flag
    sLast,             \* the last call on the store and what it returned
    futs,              \* futures of concurrent calls: position, operation, result
    lock,              \* the RwLock of data: 0, or the future that holds it
    \* ---- PostgresMetadataStore ----
    store,             \* PostgresStore: "Created" or "Inited"
    rows,              \* the job_data table: id -> row, or NoRow
    pLast,             \* the last call on the store and what it returned
    queried            \* the last call sent a statement to the database

schedVars  == <<jobs, shutdown_handler, poisoned, regInvoked, regOk, registered,
                pc, guids, snap, concAdded, inflight, loopPc, now, last>>
concVars   == <<futs, lock>>
simpleVars == <<data, inited, sLast, concVars>>
pgVars     == <<store, rows, pLast, queried>>
vars       == <<schedVars, simpleVars, pgVars>>

-----------------------------------------------------------------------------
\* Bounds of the model
MaxJobs     == 2    \* job identifiers 1..MaxJobs
MaxTime     == 2    \* the clock runs 0..MaxTime
MaxInvoke   == 2    \* calls of one registered callback that are followed
MaxIds      == 2    \* metadata store identifiers 1..MaxIds
MaxTick     == 1    \* timestamps and counters of stored records 0..MaxTick
IntBits     == 3    \* width of the integers of stored records (stands for 64 and 32)
MaxFut      == 3    \* futures of one SimpleMetadataStore that run concurrently

\* Program constants
DefaultWait == 500  \* ms, time_till_next_job over an empty registry
TickSleep   == 500  \* ms, the sleep of start()'s loop before each tick

JobIds    == 1..MaxJobs
Handlers  == {"A", "B"}          \* the shutdown callbacks the host registers
\* schedule() of a job: 0 = None (not a cron job), p = "every p seconds"
Schedules == {0, 1, 2}
NoJob    == [none |-> TRUE]

Min(S) == CHOOSE x \in S : \A y \in S : x <= y

-----------------------------------------------------------------------------
\* The job registry and the jobs (crate::job_store, crate::job)

\* The cron schedule "every p seconds": the first occurrence strictly after t.
Upcoming(p, t) == ((t \div p) + 1) * p

\* A job handle as registered at time t. schedule = 0: the job has no cron
\* schedule (Job::schedule() is None); it is Repeating(interval = 1 s,
\* repeat_indefinitely = false) with one remaining repeat. remaining = -1: the
\* job (a cron job) has no repeat budget. next_tick = -1 is None (exhausted).
NewJob(sched, t) ==
    [schedule   |-> sched,
     remaining  |-> IF sched = 0 THEN 1 ELSE -1,
     stopped    |-> FALSE,
     next_tick  |-> IF sched = 0 THEN t + 1 ELSE Upcoming(sched, t),
     last_tick  |-> -1,
     ran        |-> FALSE,
     run_count  |-> 0]

\* JobStoreLocked::list_job_guids
ListIds(js) == {g \in JobIds : js[g] # NoJob}

\* JobStoreLocked::add: CantAdd on a duplicate identifier
JobStoreAdd(js, id, job) ==
    IF js[id] # NoJob
    THEN [res |-> "CantAdd", js |-> js]
    ELSE [res |-> "Ok", js |-> [js EXCEPT ![id] = job]]

\* JobStoreLocked::remove: CantRemove on an unknown identifier
JobStoreRemove(js, id) ==
    IF js[id] = NoJob
    THEN [res |-> "CantRemove", js |-> js]
    ELSE [res |-> "Ok", js |-> [js EXCEPT ![id] = NoJob]]

\* The orders in which a snapshot of the set S can be listed
Orders(S) ==
    {s \in [1..Cardinality(S) -> S] : \A i, k \in 1..Cardinality(S) : s[i] = s[k] => i = k}

Call(op, id, res, val) == [op |-> op, id |-> id, res |-> res, val |-> val]

-----------------------------------------------------------------------------
\* JobStoredData and the metadata stores' state

StoreIds == 1..MaxIds     \* keys of the SimpleMetadataStore map
PgIds    == {1, 2}        \* primary keys of the job_data table
NoData   == [none |-> TRUE]
NoRow    == [none |-> TRUE]

\* Option<T> is a set: {} is None, {x} is Some(x)
Unwrap(o)        == CHOOSE x \in o : TRUE
UnwrapOr(o, dflt) == IF o = {} THEN dflt ELSE Unwrap(o)

\* Casts between unsigned and signed integers of IntBits bits (`as`)
Wrap         == 2 ^ IntBits
ToSigned(x)   == IF x % Wrap >= Wrap \div 2 THEN (x % Wrap) - Wrap ELSE x % Wrap
ToUnsigned(x) == x % Wrap

PCall(op, id, res, val, arg) ==
    [op |-> op, id |-> id, res |-> res, val |-> val, arg |-> arg]

shutdownVars == <<shutdown_handler, poisoned, regInvoked, regOk, registered>>
loopVars     == <<pc, guids, snap, concAdded>>

-----------------------------------------------------------------------------
\* SimpleJobScheduler

\* The state after construction: SimpleJobScheduler::default(), an empty
\* SimpleMetadataStore and a PostgresMetadataStore over a Created store.
Init ==
    /\ jobs = [g \in JobIds |-> NoJob]
    /\ shutdown_handler = "None"
    /\ poisoned = FALSE
    /\ regInvoked = 0
    /\ regOk = 0
    /\ registered = <<"None", "None">>
    /\ pc = "idle"
    /\ guids = <<>>
    /\ snap = {}
    /\ concAdded = {}
    /\ inflight = [g \in JobIds |-> 0]
    /\ loopPc = "none"
    /\ now = 0
    /\ last = Call("new", 0, "Ok", 0)
    /\ data = [i \in StoreIds |-> NoData]
    /\ inited = FALSE
    /\ sLast = Call("new", 0, "Ok", 0)
    /\ futs = [f \in 1..MaxFut |-> [pc |-> "none", op |-> [none |-> TRUE], ret |-> {}, m |-> <<>>]]
    /\ lock = 0
    /\ store = "Created"
    /\ rows = [i \in PgIds |-> NoRow]
    /\ pLast = PCall("new", 0, "Ok", 0, 0)
    /\ queried = FALSE

\* fn add(&mut self, job)
add_NoStore(id, job) ==
    /\ pc = "idle"
    /\ last' = Call("add", id, "Ok", 0)
    /\ UNCHANGED <<jobs, shutdownVars, loopVars, inflight, loopPc, now, simpleVars, pgVars>>

add(id, job) ==
    /\ pc = "idle"
    /\ LET r == JobStoreAdd(jobs, id, job) IN
         /\ jobs' = r.js
         /\ last' = Call("add", id, r.res, 0)
    /\ UNCHANGED <<shutdownVars, loopVars, inflight, loopPc, now, simpleVars, pgVars>>

\* fn remove(&mut self, to_be_removed)
remove_IgnoreErr(to_be_removed) ==
    /\ pc = "idle"
    /\ LET r == JobStoreRemove(jobs, to_be_removed) IN
         /\ jobs' = r.js
         /\ last' = Call("remove", to_be_removed, "Ok", 0)
    /\ UNCHANGED <<shutdownVars, loopVars, inflight, loopPc, now, simpleVars, pgVars>>

remove(to_be_removed) ==
    /\ pc = "idle"
    /\ LET r == JobStoreRemove(jobs, to_be_removed) IN
         /\ jobs' = r.js
         /\ last' = Call("remove", to_be_removed, r.res, 0)
    /\ UNCHANGED <<shutdownVars, loopVars, inflight, loopPc, now, simpleVars, pgVars>>

\* fn tick(&mut self, scheduler): the body is commented out; it returns Ok(())
tick_Run ==
    /\ pc = "idle"
    /\ \E g \in ListIds(jobs) :
         /\ ~jobs[g].stopped
         /\ jobs[g].next_tick <= now
         /\ inflight' = [inflight EXCEPT ![g] = @ + 1]
    /\ last' = Call("tick", 0, "Ok", 0)
    /\ UNCHANGED <<jobs, shutdownVars, loopVars, loopPc, now, simpleVars, pgVars>>

tick_RemoveStopped ==
    /\ pc = "idle"
    /\ jobs' = [g \in JobIds |-> IF jobs[g] # NoJob /\ jobs[g].stopped THEN NoJob ELSE jobs[g]]
    /\ last' = Call("tick", 0, "Ok", 0)
    /\ UNCHANGED <<shutdownVars, loopVars, inflight, loopPc, now, simpleVars, pgVars>>

tick ==
    /\ pc = "idle"
    /\ last' = Call("tick", 0, "Ok", 0)
    /\ UNCHANGED <<jobs, shutdownVars, loopVars, inflight, loopPc, now, simpleVars, pgVars>>

\* fn time_till_next_job(&mut self)
time_till_next_job_NoDefault ==
    /\ pc = "idle"
    /\ LET ids   == ListIds(jobs)
           diffs == {Upcoming(jobs[g].schedule, now) - now :
                        g \in {x \in ids : jobs[x].schedule # 0}}
           min   == IF diffs = {} THEN 0 ELSE Min(diffs)
       IN  last' = Call("time_till_next_job", 0, "Ok", IF min < 0 THEN 0 ELSE min * 1000)
    /\ UNCHANGED <<jobs, shutdownVars, loopVars, inflight, loopPc, now, simpleVars, pgVars>>

time_till_next_job ==
    /\ pc = "idle"
    /\ LET ids   == ListIds(jobs)
           \* flat_map(get_job).flatten().filter_map(schedule().upcoming().next - now)
           diffs == {Upcoming(jobs[g].schedule, now) - now :
                        g \in {x \in ids : jobs[x].schedule # 0}}
           \* .min().unwrap_or_else(zero)
           min   == IF diffs = {} THEN 0 ELSE Min(diffs)
           \* .to_std().unwrap_or_else(0), in milliseconds
           m     == IF min < 0 THEN 0 ELSE min * 1000
       IN  last' = Call("time_till_next_job", 0, "Ok",
                        IF ids = {} THEN DefaultWait ELSE m)
    /\ UNCHANGED <<jobs, shutdownVars, loopVars, inflight, loopPc, now, simpleVars, pgVars>>

\* fn shutdown(&mut self), line 177: let guids = self.job_store.list_job_guids()?
shutdown_list ==
    /\ pc = "idle"
    /\ regInvoked < MaxInvoke
    /\ \E order \in Orders(ListIds(jobs)) : guids' = order
    /\ snap' = ListIds(jobs)
    /\ concAdded' = {}
    /\ pc' = "removing"
    /\ last' = Call("shutdown_list", 0, "Ok", 0)
    /\ UNCHANGED <<jobs, shutdownVars, inflight, loopPc, now, simpleVars, pgVars>>

\* fn shutdown, lines 178-180: for guid in guids { self.remove(&guid)?; }
shutdown_remove_FirstOnly ==
    /\ pc = "removing"
    /\ guids # <<>>
    /\ LET r == JobStoreRemove(jobs, Head(guids)) IN
         IF r.res = "Ok"
         THEN /\ jobs' = r.js
              /\ guids' = <<>>
              /\ last' = Call("shutdown_remove", Head(guids), "Ok", 0)
              /\ UNCHANGED <<pc, snap, concAdded>>
         ELSE /\ jobs' = jobs
              /\ pc' = "idle"
              /\ guids' = <<>>
              /\ snap' = {}
              /\ concAdded' = {}
              /\ last' = Call("shutdown", Head(guids), r.res, Cardinality(snap))
    /\ UNCHANGED <<shutdownVars, inflight, loopPc, now, simpleVars, pgVars>>

shutdown_remove_SkipFailed ==
    /\ pc = "removing"
    /\ guids # <<>>
    /\ LET r == JobStoreRemove(jobs, Head(guids)) IN
         /\ jobs' = r.js
         /\ guids' = Tail(guids)
         /\ last' = Call("shutdown_remove", Head(guids), r.res, 0)
         /\ UNCHANGED <<pc, snap, concAdded>>
    /\ UNCHANGED <<shutdownVars, inflight, loopPc, now, simpleVars, pgVars>>

shutdown_remove ==
    /\ pc = "removing"
    /\ guids # <<>>
    /\ LET r == JobStoreRemove(jobs, Head(guids)) IN
         IF r.res = "Ok"
         THEN /\ jobs' = r.js
              /\ guids' = Tail(guids)
              /\ last' = Call("shutdown_remove", Head(guids), "Ok", 0)
              /\ UNCHANGED <<pc, snap, concAdded>>
         ELSE \* the ? returns the error from shutdown()
              /\ jobs' = jobs
              /\ pc' = "idle"
              /\ guids' = <<>>
              /\ snap' = {}
              /\ concAdded' = {}
              /\ last' = Call("shutdown", Head(guids), r.res, Cardinality(snap))
    /\ UNCHANGED <<shutdownVars, inflight, loopPc, now, simpleVars, pgVars>>

\* fn shutdown, lines 181-191: call the callback of the slot, spawn its future
shutdown_notify ==
    /\ pc = "removing"
    /\ guids = <<>>
    /\ IF shutdown_handler = "None"
       THEN /\ last' = Call("shutdown", "None", "Ok", Cardinality(snap))
            /\ UNCHANGED shutdownVars
       ELSE IF poisoned
       THEN \* e.write() fails: map_err(ShutdownNotifier)?
            /\ last' = Call("shutdown", "None", "ShutdownNotifier", Cardinality(snap))
            /\ UNCHANGED shutdownVars
       ELSE \E panics \in BOOLEAN :
            \* (w)(): the callback is called; last.id names it
            /\ regInvoked' = regInvoked + 1
            /\ poisoned' = panics
            /\ regOk' = IF panics THEN regOk ELSE regOk + 1
            /\ last' = Call("shutdown", shutdown_handler,
                            IF panics THEN "Panic" ELSE "Ok", Cardinality(snap))
            /\ UNCHANGED <<shutdown_handler, registered>>
    /\ pc' = "idle"
    /\ snap' = {}
    /\ concAdded' = {}
    /\ UNCHANGED <<jobs, guids, inflight, loopPc, now, simpleVars, pgVars>>

\* fn set_shutdown_handler(&mut self, job)
set_shutdown_handler_IfEmpty(h) ==
    /\ pc = "idle"
    /\ shutdown_handler' = IF shutdown_handler = "None" THEN h ELSE shutdown_handler
    /\ poisoned' = FALSE
    /\ regInvoked' = 0
    /\ regOk' = 0
    /\ registered' = <<registered[2], h>>
    /\ last' = Call("set_shutdown_handler", h, "Ok", 0)
    /\ UNCHANGED <<jobs, loopVars, inflight, loopPc, now, simpleVars, pgVars>>

set_shutdown_handler(h) ==
    /\ pc = "idle"
    /\ shutdown_handler' = h
    /\ poisoned' = FALSE
    /\ regInvoked' = 0
    /\ regOk' = 0
    /\ registered' = <<registered[2], h>>
    /\ last' = Call("set_shutdown_handler", h, "Ok", 0)
    /\ UNCHANGED <<jobs, loopVars, inflight, loopPc, now, simpleVars, pgVars>>

\* fn remove_shutdown_handler(&mut self)
remove_shutdown_handler_KeepSlot ==
    /\ pc = "idle"
    /\ poisoned' = FALSE
    /\ regInvoked' = 0
    /\ regOk' = 0
    /\ registered' = <<registered[2], "None">>
    /\ last' = Call("remove_shutdown_handler", 0, "Ok", 0)
    /\ UNCHANGED <<jobs, shutdown_handler, loopVars, inflight, loopPc, now, simpleVars, pgVars>>

remove_shutdown_handler ==
    /\ pc = "idle"
    /\ shutdown_handler' = "None"
    /\ poisoned' = FALSE
    /\ regInvoked' = 0
    /\ regOk' = 0
    /\ registered' = <<registered[2], "None">>
    /\ last' = Call("remove_shutdown_handler", 0, "Ok", 0)
    /\ UNCHANGED <<jobs, loopVars, inflight, loopPc, now, simpleVars, pgVars>>

\* fn get_job_store(&self): a clone of the store, used by another task to add
\* or remove a job while shutdown() is between two of its steps
store_add(id, job) ==
    /\ pc = "removing"
    /\ LET r == JobStoreAdd(jobs, id, job) IN
         /\ jobs' = r.js
         /\ concAdded' = IF r.res = "Ok" THEN concAdded \cup {id} ELSE concAdded
         /\ last' = Call("store_add", id, r.res, 0)
    /\ UNCHANGED <<shutdownVars, pc, guids, snap, inflight, loopPc, now, simpleVars, pgVars>>

store_remove(id) ==
    /\ pc = "removing"
    /\ LET r == JobStoreRemove(jobs, id) IN
         /\ jobs' = r.js
         /\ last' = Call("store_remove", id, r.res, 0)
    /\ UNCHANGED <<shutdownVars, loopVars, inflight, loopPc, now, simpleVars, pgVars>>

\* Stop job(id): sets the stopped flag of a registered job
stop(id) ==
    /\ pc = "idle"
    /\ jobs[id] # NoJob
    /\ ~jobs[id].stopped
    /\ jobs' = [jobs EXCEPT ![id].stopped = TRUE]
    /\ last' = Call("stop", id, "Ok", 0)
    /\ UNCHANGED <<shutdownVars, loopVars, inflight, loopPc, now, simpleVars, pgVars>>

\* The clock advances by one second
AdvanceTime ==
    /\ now < MaxTime
    /\ now' = now + 1
    /\ last' = Call("time", 0, "Ok", 0)
    /\ UNCHANGED <<jobs, shutdownVars, loopVars, inflight, loopPc, simpleVars, pgVars>>

Next ==
    \/ \E id \in JobIds, sched \in Schedules : add(id, NewJob(sched, now))
    \/ \E id \in JobIds : remove(id)
    \/ \E id \in JobIds : stop(id)
    \/ tick
    \/ time_till_next_job
    \/ AdvanceTime

NextShutdown ==
    \/ \E id \in JobIds : add(id, NewJob(1, now))
    \/ \E id \in JobIds : remove(id)
    \/ time_till_next_job
    \/ shutdown_list
    \/ shutdown_remove
    \/ shutdown_notify
    \/ \E h \in Handlers : set_shutdown_handler(h)
    \/ remove_shutdown_handler
    \/ \E id \in JobIds : store_add(id, NewJob(1, now))
    \/ \E id \in JobIds : store_remove(id)

\* fn start(&mut self, scheduler): tokio::spawn of the loop; one task is followed
start ==
    /\ pc = "idle"
    /\ loopPc = "none"
    /\ loopPc' = "sleep"
    /\ last' = Call("start", 0, "Ok", 0)
    /\ UNCHANGED <<jobs, shutdownVars, loopVars, inflight, now, simpleVars, pgVars>>

\* start, line 218: tokio::time::sleep(Duration::from_millis(500)).await
loop_sleep ==
    /\ loopPc = "sleep"
    /\ loopPc' = "tick"
    /\ last' = Call("sleep", 0, "Ok", TickSleep)
    /\ UNCHANGED <<jobs, shutdownVars, loopVars, inflight, now, simpleVars, pgVars>>

\* start, lines 219-223: jsl.tick(), whose Err is printed; then the next
\* iteration. jsl.tick() takes the scheduler's lock and returns Err when it
\* cannot, else what tick returns.
loop_tick_BreakOnErr ==
    /\ pc = "idle"
    /\ loopPc = "tick"
    /\ \E res \in {"Ok", "Err"} :
         /\ last' = Call("tick", 0, res, 0)
         /\ loopPc' = IF res = "Err" THEN "ended" ELSE "sleep"
    /\ UNCHANGED <<jobs, shutdownVars, loopVars, inflight, now, simpleVars, pgVars>>

loop_tick ==
    /\ pc = "idle"
    /\ loopPc = "tick"
    /\ \E res \in {"Ok", "Err"} : last' = Call("tick", 0, res, 0)
    /\ loopPc' = "sleep"
    /\ UNCHANGED <<jobs, shutdownVars, loopVars, inflight, now, simpleVars, pgVars>>

NextLoop ==
    \/ \E id \in JobIds, sched \in Schedules : add(id, NewJob(sched, now))
    \/ \E id \in JobIds : remove(id)
    \/ tick
    \/ start
    \/ loop_sleep
    \/ loop_tick

\* The registry, the tick and the clock
Spec == Init /\ [][Next]_vars

\* The task of start(), beside the host's calls. The tokio runtime runs a
\* spawned task that is ready, and a sleep elapses: both steps are weakly fair.
SpecLoop == Init /\ [][NextLoop]_vars /\ WF_vars(loop_sleep) /\ WF_vars(loop_tick)

\* shutdown() and the shutdown callback, with a store clone used concurrently
SpecShutdown == Init /\ [][NextShutdown]_vars

-----------------------------------------------------------------------------
\* JobStoredData values the stores are driven with: a cron-type and an
\* interval-type record per id, tick t and flag f; every field varies, and
\* no two numeric fields of a record are equal.

CronData(ident, t, f) ==
    [id           |-> ident,
     last_updated |-> IF f THEN {t + 2} ELSE {},
     last_tick    |-> IF f THEN {} ELSE {t + 3},
     next_tick    |-> t + 1,
     job_type     |-> 0,
     count        |-> t,
     extra        |-> IF f THEN <<t>> ELSE <<>>,
     ran          |-> f,
     stopped      |-> ~f,
     job          |-> {[kind |-> "CronJob",
                        schedule |-> IF f THEN "* * * * * *" ELSE "0 * * * * *"]}]

IntervalData(ident, t, f) ==
    [id           |-> ident,
     last_updated |-> IF f THEN {} ELSE {t + 2},
     last_tick    |-> IF f THEN {t + 3} ELSE {},
     next_tick    |-> t + 1,
     job_type     |-> 1,
     count        |-> t,
     extra        |-> IF f THEN <<>> ELSE <<t>>,
     ran          |-> ~f,
     stopped      |-> f,
     job          |-> {[kind |-> "NonCronJob",
                        repeating |-> f,
                        repeated_every |-> t + 4]}]

\* ident is Option<JobUuid>: {} or {i}; the flag also picks the tick
DataOf(ids) ==
    {CronData(ident, IF f THEN MaxTick ELSE 0, f) :
         ident \in {{}} \cup {{i} : i \in ids}, f \in BOOLEAN}
    \cup
    {IntervalData(ident, IF f THEN 0 ELSE MaxTick, f) :
         ident \in {{}} \cup {{i} : i \in ids}, f \in BOOLEAN}

DataSet == DataOf(StoreIds)

-----------------------------------------------------------------------------
\* SimpleMetadataStore. Each future takes the lock (data.write().await) and
\* runs its body under it, so a call and its await are one step.

schedFrame == <<schedVars, pgVars, concVars>>

\* fn get(&mut self, id)
Simple_get(id) ==
    /\ sLast' = Call("get", id, "Ok", IF data[id] = NoData THEN {} ELSE {data[id]})
    /\ UNCHANGED <<data, inited, schedFrame>>

\* fn add_or_update(&mut self, data): data.id.as_ref().unwrap(), w.insert(id, data)
Simple_add_or_update_IfAbsent(d) ==
    IF d.id = {}
    THEN /\ sLast' = Call("add_or_update", 0, "Panic", d)
         /\ UNCHANGED <<data, inited, schedFrame>>
    ELSE /\ data' = IF data[Unwrap(d.id)] = NoData
                    THEN [data EXCEPT ![Unwrap(d.id)] = d]
                    ELSE data
         /\ sLast' = Call("add_or_update", Unwrap(d.id), "Ok", d)
         /\ UNCHANGED <<inited, schedFrame>>

Simple_add_or_update(d) ==
    IF d.id = {}
    THEN /\ sLast' = Call("add_or_update", 0, "Panic", d)
         /\ UNCHANGED <<data, inited, schedFrame>>
    ELSE /\ data' = [data EXCEPT ![Unwrap(d.id)] = d]
         /\ sLast' = Call("add_or_update", Unwrap(d.id), "Ok", d)
         /\ UNCHANGED <<inited, schedFrame>>

\* fn delete(&mut self, guid)
Simple_delete_Clear(guid) ==
    /\ data' = [i \in StoreIds |-> NoData]
    /\ sLast' = Call("delete", guid, "Ok", 0)
    /\ UNCHANGED <<inited, schedFrame>>

Simple_delete(guid) ==
    /\ data' = [data EXCEPT ![guid] = NoData]
    /\ sLast' = Call("delete", guid, "Ok", 0)
    /\ UNCHANGED <<inited, schedFrame>>

\* fn init(&mut self)
Simple_init ==
    /\ inited' = TRUE
    /\ sLast' = Call("init", 0, "Ok", 0)
    /\ UNCHANGED <<data, schedFrame>>

\* fn inited(&mut self)
Simple_inited ==
    /\ sLast' = Call("inited", 0, "Ok", inited)
    /\ UNCHANGED <<data, inited, schedFrame>>

\* JobAndNextTick of a stored record
JobAndNextTick(v) == [id |-> v.id, next_tick |-> v.next_tick, last_tick |-> v.last_tick]

\* fn list_next_ticks(&mut self): r.iter().map(..).collect(), every record of
\* the map; the Vec is in the map's order and is taken as a set
Simple_list_next_ticks ==
    /\ sLast' = Call("list_next_ticks", 0, "Ok",
                     {JobAndNextTick(data[i]) : i \in {k \in StoreIds : data[k] # NoData}})
    /\ UNCHANGED <<data, inited, schedFrame>>

\* DateTime<Utc>::timestamp() of the next_tick arguments: i64 seconds, negative
\* before the epoch
TimeStamps == {-1, 1}

\* fn set_next_tick(&mut self, guid, next_tick):
\* val.next_tick = next_tick.timestamp() as u64
Simple_set_next_tick_ClearsLast(guid, next_tick) ==
    /\ IF data[guid] = NoData
       THEN /\ sLast' = Call("set_next_tick", guid, "UpdateJobData", next_tick)
            /\ data' = data
       ELSE /\ data' = [data EXCEPT ![guid].next_tick = ToUnsigned(next_tick),
                                    ![guid].last_tick = {}]
            /\ sLast' = Call("set_next_tick", guid, "Ok", next_tick)
    /\ UNCHANGED <<inited, schedFrame>>

Simple_set_next_tick(guid, next_tick) ==
    /\ IF data[guid] = NoData
       THEN \* w.get_mut(&guid) is None
            /\ sLast' = Call("set_next_tick", guid, "UpdateJobData", next_tick)
            /\ data' = data
       ELSE /\ data' = [data EXCEPT ![guid].next_tick = ToUnsigned(next_tick)]
            /\ sLast' = Call("set_next_tick", guid, "Ok", next_tick)
    /\ UNCHANGED <<inited, schedFrame>>

NextSimple ==
    \/ \E id \in StoreIds : Simple_get(id)
    \/ \E d \in DataSet : Simple_add_or_update(d)
    \/ \E guid \in StoreIds : Simple_delete(guid)
    \/ Simple_init
    \/ Simple_inited
    \/ Simple_list_next_ticks
    \/ \E guid \in StoreIds, next_tick \in TimeStamps : Simple_set_next_tick(guid, next_tick)
    \/ AdvanceTime

\* The in-memory metadata store
SpecSimple == Init /\ [][NextSimple]_vars

\* Concurrent calls on one SimpleMetadataStore. A call returns a future that
\* owns a clone of the Arc; the future, when polled, awaits data.write(), runs
\* its body on the map under the guard and drops the guard. The map is not
\* thread-safe by itself: a body works on the map as it found it (m) and
\* leaves the map it made of it.
Futs    == 1..MaxFut
NoOp    == [none |-> TRUE]
ConcOps ==
    {[name |-> "add_or_update", id |-> Unwrap(d.id), d |-> d] :
        d \in {CronData({1}, 0, FALSE), IntervalData({1}, 0, TRUE), CronData({2}, 0, FALSE)}}
    \cup {[name |-> "delete", id |-> 1, d |-> NoData],
          [name |-> "get", id |-> 1, d |-> NoData]}

\* The body of a future of op on the map m: the map it leaves and its result
\* (the Option of get; {} for the others)
Body(op, m) ==
    CASE op.name = "add_or_update" -> [data |-> [m EXCEPT ![op.id] = op.d], ret |-> {}]
      [] op.name = "delete" -> [data |-> [m EXCEPT ![op.id] = NoData], ret |-> {}]
      [] op.name = "get" ->
            [data |-> m, ret |-> IF m[op.id] = NoData THEN {} ELSE {m[op.id]}]

concFrame == <<schedVars, pgVars, inited, sLast>>

\* get / add_or_update / delete called: the future is made, not yet polled
fut_create(f, op) ==
    /\ futs[f].pc = "none"
    /\ \A g \in Futs : g < f => futs[g].pc # "none"
    /\ futs' = [futs EXCEPT ![f] = [pc |-> "created", op |-> op, ret |-> {}, m |-> <<>>]]
    /\ UNCHANGED <<data, lock, concFrame>>

\* data.write().await: the guard is granted when no other future holds it
fut_lock_NoExclusion(f) ==
    /\ futs[f].pc = "created"
    /\ lock' = f
    /\ futs' = [futs EXCEPT ![f].pc = "locked", ![f].m = data]
    /\ UNCHANGED <<data, concFrame>>

fut_lock(f) ==
    /\ futs[f].pc = "created"
    /\ lock = 0
    /\ lock' = f
    /\ futs' = [futs EXCEPT ![f].pc = "locked", ![f].m = data]
    /\ UNCHANGED <<data, concFrame>>

\* the body under the guard, Ok(..), and the guard's drop
fut_run(f) ==
    /\ futs[f].pc = "locked"
    /\ LET r == Body(futs[f].op, futs[f].m) IN
         /\ data' = r.data
         /\ futs' = [futs EXCEPT ![f].pc = "done", ![f].ret = r.ret, ![f].m = <<>>]
    /\ lock' = 0
    /\ UNCHANGED concFrame

NextConc ==
    \/ \E f \in Futs, op \in ConcOps : fut_create(f, op)
    \/ \E f \in Futs : fut_lock(f)
    \/ \E f \in Futs : fut_run(f)

SpecConc == Init /\ [][NextConc]_vars

-----------------------------------------------------------------------------
\* PostgresMetadataStore. The database is not part of the repository: a
\* statement either fails (the backend rejects it, the connection drops) or
\* is executed on the job_data table as written, with $1 standing for the
\* table name and a NULL in every column the statement does not set.

simpleFrame == <<schedVars, simpleVars>>

\* The SQL type of each column of job_data (CREATE TABLE, lines 259-271;
\* last_tick is the column set_next_and_last_tick and list_next_ticks use)
ColType(c) ==
    CASE c = "id" -> "uuid"
      [] c \in {"last_updated", "next_tick", "last_tick", "repeated_every"} -> "int8"
      [] c \in {"job_type", "count"} -> "int4"
      [] c \in {"ran", "stopped", "repeating"} -> "bool"
      [] c = "schedule" -> "text"
      [] c = "extra" -> "bytea"

\* The select list of get (lines 53-57), in order; repeating_every names the
\* repeated_every column
GetColumns ==
    <<"id", "last_updated", "next_tick", "job_type", "count", "ran",
      "stopped", "schedule", "repeating", "repeated_every", "extra">>

\* The result row of a SELECT of the columns cols from the table row r
Select(r, cols) == [i \in 1..Len(cols) |-> [t |-> ColType(cols[i]), v |-> r[cols[i]]]]

\* Row::try_get::<T>(idx): Err ({}) when the index is out of range, the
\* column's type is not the one T accepts, or the value is NULL
TryGet(row, idx, ty) ==
    IF idx + 1 > Len(row) THEN {}
    ELSE IF row[idx + 1].t # ty THEN {}
    ELSE row[idx + 1].v

\* JobType::from_i32: Cron = 0, Repeated = 1, OneShot = 2
JobTypeFromI32(n) ==
    IF n = 0 THEN "Cron" ELSE IF n \in {1, 2} THEN "Other" ELSE "None"

\* impl From<Row> for JobStoredData: [panic, d]; Row::get panics where
\* try_get fails
FromRow(row) ==
    LET id           == TryGet(row, 0, "uuid")
        last_updated == {ToUnsigned(i) : i \in TryGet(row, 1, "int8")}
        last_tick    == {ToUnsigned(i) : i \in TryGet(row, 2, "int8")}
        next_tick    == UnwrapOr({ToUnsigned(i) : i \in TryGet(row, 3, "int8")}, 0)
        job_type     == UnwrapOr(TryGet(row, 4, "int4"), 0)
        count        == UnwrapOr(TryGet(row, 5, "oid"), 0)
        extra        == UnwrapOr(TryGet(row, 6, "bytea"), <<>>)
        ran          == UnwrapOr(TryGet(row, 7, "bool"), FALSE)
        stopped      == UnwrapOr(TryGet(row, 8, "bool"), FALSE)
        jt           == JobTypeFromI32(job_type)
        repeating    == TryGet(row, 9, "bool")
        job          == IF jt = "Cron"
                        THEN {[kind |-> "CronJob", schedule |-> sch] :
                                  sch \in TryGet(row, 8, "text")}
                        ELSE IF jt = "Other"
                        THEN {[kind |-> "NonCronJob",
                               repeating |-> rp,
                               repeated_every |->
                                   UnwrapOr({ToUnsigned(i) : i \in TryGet(row, 10, "int8")}, 0)] :
                                  rp \in repeating}
                        ELSE {}
    IN  [panic |-> id = {} \/ (jt = "Other" /\ repeating = {}),
         d     |-> [id           |-> id,
                    last_updated |-> last_updated,
                    last_tick    |-> last_tick,
                    next_tick    |-> next_tick,
                    job_type     |-> job_type,
                    count        |-> count,
                    extra        |-> extra,
                    ran          |-> ran,
                    stopped      |-> stopped,
                    job          |-> job]]

\* The row add_or_update binds to $2..$12 (lines 106-124); old is the row
\* the upsert replaces, whose last_tick the statement does not set
InsertRow(d, old) ==
    LET cron == {j \in d.job : j.kind = "CronJob"}
        non  == {j \in d.job : j.kind = "NonCronJob"}
    IN  [id             |-> d.id,
         last_updated   |-> {ToSigned(i) : i \in d.last_updated},
         next_tick      |-> {ToSigned(d.next_tick)},
         last_tick      |-> IF old = NoRow THEN {} ELSE old.last_tick,
         job_type       |-> {d.job_type},
         count          |-> {ToSigned(d.count)},
         ran            |-> {d.ran},
         stopped        |-> {d.stopped},
         schedule       |-> {j.schedule : j \in cron},
         repeating      |-> {j.repeating : j \in non},
         repeated_every |-> {ToSigned(j.repeated_every) : j \in non},
         extra          |-> {d.extra}]

\* What an init() did: the connection initialisation (val.init()) and the
\* CREATE TABLE statement
InitEffects(outcome, init_tables) ==
    IF outcome = "connect_err" THEN {"connect"}
    ELSE IF init_tables THEN {"connect", "create"} ELSE {"connect"}

InitResult(outcome) ==
    CASE outcome = "connect_err" -> "Err"
      [] outcome = "create_err" -> "CantInit"
      [] outcome = "ok" -> "Ok"

\* fn init(&mut self): connect, create the table when init_tables, then *w = v
Pg_init_Reconnect(init_tables) ==
    \E outcome \in {"connect_err", "create_err", "ok"} :
         /\ outcome = "create_err" => init_tables
         /\ store' = IF outcome = "ok" THEN "Inited" ELSE store
         /\ pLast' = PCall("init", 0, InitResult(outcome),
                           InitEffects(outcome, init_tables), init_tables)
         /\ queried' = ("create" \in InitEffects(outcome, init_tables))
         /\ UNCHANGED <<rows, simpleFrame>>

Pg_init_AssignFirst(init_tables) ==
    IF store = "Inited"
    THEN /\ pLast' = PCall("init", 0, "Ok", {}, init_tables)
         /\ queried' = FALSE
         /\ UNCHANGED <<store, rows, simpleFrame>>
    ELSE \E outcome \in {"connect_err", "create_err", "ok"} :
         /\ outcome = "create_err" => init_tables
         /\ store' = IF outcome = "connect_err" THEN store ELSE "Inited"
         /\ pLast' = PCall("init", 0, InitResult(outcome),
                           InitEffects(outcome, init_tables), init_tables)
         /\ queried' = ("create" \in InitEffects(outcome, init_tables))
         /\ UNCHANGED <<rows, simpleFrame>>

Pg_init(init_tables) ==
    IF store = "Inited"
    THEN \* inited is Ok(true): the else branch, Ok(())
         /\ pLast' = PCall("init", 0, "Ok", {}, init_tables)
         /\ queried' = FALSE
         /\ UNCHANGED <<store, rows, simpleFrame>>
    ELSE \E outcome \in {"connect_err", "create_err", "ok"} :
         /\ outcome = "create_err" => init_tables
         \* *w = v is reached only when nothing failed
         /\ store' = IF outcome = "ok" THEN "Inited" ELSE store
         /\ pLast' = PCall("init", 0, InitResult(outcome),
                           InitEffects(outcome, init_tables), init_tables)
         /\ queried' = ("create" \in InitEffects(outcome, init_tables))
         /\ UNCHANGED <<rows, simpleFrame>>

\* fn inited(&mut self)
Pg_inited ==
    /\ pLast' = PCall("inited", 0, "Ok", store = "Inited", 0)
    /\ queried' = FALSE
    /\ UNCHANGED <<store, rows, simpleFrame>>

\* fn get(&mut self, id): query_one fails when no row matches
Pg_get(id) ==
    /\ IF store = "Created"
       THEN pLast' = PCall("get", id, "GetJobData", {}, 0)
       ELSE \E fails \in BOOLEAN :
            IF fails \/ rows[id] = NoRow
            THEN pLast' = PCall("get", id, "GetJobData", {}, 0)
            ELSE LET r == FromRow(Select(rows[id], GetColumns)) IN
                 pLast' = IF r.panic
                          THEN PCall("get", id, "Panic", {}, 0)
                          ELSE PCall("get", id, "Ok", {r.d}, 0)
    /\ queried' = (store = "Inited")
    /\ UNCHANGED <<store, rows, simpleFrame>>

\* fn add_or_update(&mut self, data): the upsert; query_one reports an error
\* when the statement was rejected, and also when it returned no row
Pg_add_or_update(d) ==
    /\ IF store = "Created"
       THEN /\ pLast' = PCall("add_or_update", 0, "UpdateJobData", FALSE, d)
            /\ rows' = rows
       ELSE IF d.id = {}
       THEN /\ pLast' = PCall("add_or_update", 0, "Panic", FALSE, d)
            /\ rows' = rows
       ELSE \E applied \in BOOLEAN, res \in {"Ok", "CantAdd"} :
            /\ ~applied => res = "CantAdd"
            /\ rows' = IF applied
                       THEN [rows EXCEPT ![Unwrap(d.id)] = InsertRow(d, @)]
                       ELSE rows
            /\ pLast' = PCall("add_or_update", Unwrap(d.id), res, applied, d)
    \* data.id.as_ref().unwrap() panics before the statement is sent
    /\ queried' = (store = "Inited" /\ d.id # {})
    /\ UNCHANGED <<store, simpleFrame>>

\* fn delete(&mut self, guid)
Pg_delete(guid) ==
    /\ IF store = "Created"
       THEN /\ pLast' = PCall("delete", guid, "CantRemove", FALSE, 0)
            /\ rows' = rows
       ELSE \E fails \in BOOLEAN :
            /\ rows' = IF fails THEN rows ELSE [rows EXCEPT ![guid] = NoRow]
            /\ pLast' = PCall("delete", guid, IF fails THEN "CantRemove" ELSE "Ok",
                              ~fails, 0)
    /\ queried' = (store = "Inited")
    /\ UNCHANGED <<store, simpleFrame>>

\* fn set_next_and_last_tick(&mut self, guid, next_tick, last_tick):
\* next_tick and last_tick are Option<DateTime>, given by their timestamps
Pg_set_next_and_last_tick(guid, next_tick, last_tick) ==
    /\ IF store = "Created"
       THEN /\ pLast' = PCall("set_next_and_last_tick", guid, "UpdateJobData", FALSE,
                              [next |-> next_tick, last |-> last_tick])
            /\ rows' = rows
       ELSE \E fails \in BOOLEAN :
            /\ rows' = IF fails \/ rows[guid] = NoRow
                       THEN rows
                       ELSE [rows EXCEPT ![guid].next_tick = {UnwrapOr(next_tick, 0)},
                                         ![guid].last_tick = last_tick]
            /\ pLast' = PCall("set_next_and_last_tick", guid,
                              IF fails THEN "UpdateJobData" ELSE "Ok",
                              ~fails /\ rows[guid] # NoRow,
                              [next |-> next_tick, last |-> last_tick])
    /\ queried' = (store = "Inited")
    /\ UNCHANGED <<store, simpleFrame>>

\* The select list of list_next_ticks (lines 319-320), in order
ListColumns == <<"id", "job_type", "next_tick", "last_tick">>

\* list_next_ticks, lines 325-341: the JobAndNextTick of a result row;
\* next_tick is read at index 3 and last_tick at index 4
RowToNextTick(row) ==
    [id        |-> TryGet(row, 0, "uuid"),
     job_type  |-> TryGet(row, 1, "int4"),
     next_tick |-> UnwrapOr({ToUnsigned(i) : i \in TryGet(row, 3, "int8")}, 0),
     last_tick |-> {ToUnsigned(i) : i \in TryGet(row, 4, "int8")}]

\* The ids of the rows a WHERE clause on next_tick can select (a comparison
\* with NULL selects nothing), and the next_tick of such a row
RowsWithTick == {i \in PgIds : rows[i] # NoRow /\ rows[i].next_tick # {}}
TickOf(i)    == Unwrap(rows[i].next_tick)

\* fn list_next_ticks(&mut self): WHERE next_tick > 0 && next_tick < now
Pg_list_next_ticks_NoStateCheck ==
    /\ \E fails \in BOOLEAN :
         pLast' = IF fails
                  THEN PCall("list_next_ticks", 0, "CantListNextTicks", {}, 0)
                  ELSE LET sel == {i \in RowsWithTick : TickOf(i) > 0 /\ TickOf(i) < now} IN
                       PCall("list_next_ticks", 0, "Ok",
                             {RowToNextTick(Select(rows[i], ListColumns)) : i \in sel}, 0)
    /\ queried' = TRUE
    /\ UNCHANGED <<store, rows, simpleFrame>>

Pg_list_next_ticks ==
    /\ IF store = "Created"
       THEN pLast' = PCall("list_next_ticks", 0, "CantListNextTicks", {}, 0)
       ELSE \E fails \in BOOLEAN :
            pLast' = IF fails
                     THEN PCall("list_next_ticks", 0, "CantListNextTicks", {}, 0)
                     ELSE LET sel == {i \in RowsWithTick : TickOf(i) > 0 /\ TickOf(i) < now} IN
                          PCall("list_next_ticks", 0, "Ok",
                                {RowToNextTick(Select(rows[i], ListColumns)) : i \in sel}, 0)
    /\ queried' = (store = "Inited")
    /\ UNCHANGED <<store, rows, simpleFrame>>

\* fn time_till_next_job(&mut self): the least next_tick after now, as
\* Some(seconds from now) when positive
Pg_time_till_next_job ==
    /\ IF store = "Created"
       THEN pLast' = PCall("time_till_next_job", 0, "CouldNotGetTimeUntilNextTick", {}, 0)
       ELSE \E fails \in BOOLEAN :
            pLast' = IF fails
                     THEN PCall("time_till_next_job", 0, "CouldNotGetTimeUntilNextTick", {}, 0)
                     ELSE LET sel   == {i \in RowsWithTick : TickOf(i) > 0 /\ TickOf(i) > now}
                              ticks == {TickOf(i) : i \in sel}
                          IN  PCall("time_till_next_job", 0, "Ok",
                                    IF ticks = {} THEN {}
                                    ELSE {ts \in {Min(ticks) - now} : ts > 0}, 0)
    /\ queried' = (store = "Inited")
    /\ UNCHANGED <<store, rows, simpleFrame>>

\* Option<DateTime<Utc>> arguments, as timestamps
Ticks == {{}} \cup {{t} : t \in 1..MaxTick}

NextPg ==
    \/ \E init_tables \in BOOLEAN : Pg_init(init_tables)
    \/ Pg_inited
    \/ \E id \in PgIds : Pg_get(id)
    \/ \E d \in DataOf(PgIds) : Pg_add_or_update(d)
    \/ \E guid \in PgIds : Pg_delete(guid)
    \/ \E guid \in PgIds, next_tick \in Ticks, last_tick \in Ticks :
          Pg_set_next_and_last_tick(guid, next_tick, last_tick)
    \/ Pg_list_next_ticks
    \/ Pg_time_till_next_job

\* The Postgres metadata store
SpecPg == Init /\ [][NextPg]_vars

\* init() and inited() of both metadata stores, over stores that hold data
NextInit ==
    \/ Simple_init
    \/ Simple_inited
    \/ \E d \in DataOf({1}) : Simple_add_or_update(d)
    \/ \E init_tables \in BOOLEAN : Pg_init(init_tables)
    \/ Pg_inited
    \/ \E d \in DataOf({1}) : Pg_add_or_update(d)

SpecInit == Init /\ [][NextInit]_vars

-----------------------------------------------------------------------------
\* Claims about SimpleJobScheduler

\* The next occurrence of a job after t, as the Schedule Evaluator gives it
NextOccurrence(job, t) ==
    IF job.schedule # 0 THEN Upcoming(job.schedule, t)
    ELSE IF job.remaining > 1 THEN t + 1 ELSE -1

Due(g) == /\ jobs[g] # NoJob
          /\ ~jobs[g].stopped
          /\ inflight[g] = 0
          /\ jobs[g].next_tick <= now

\* C1: at most one execution of any job is in flight in every reachable state.
C1_AtMostOneExecution == \A g \in JobIds : inflight[g] <= 1

\* C1 witness: a tick has just scanned a registered job that is due.
C1_Witness == /\ last.op = "tick"
              /\ \E g \in JobIds : Due(g)
              /\ C1_AtMostOneExecution

\* C2: a tick that processes a due job executes it: ran is set, run_count is
\* one higher, last_tick is the fire time and next_tick is recomputed.
C2_TickExecutesDueJob ==
    [][\A g \in JobIds :
          (last'.op = "tick" /\ Due(g)) =>
              /\ jobs'[g] # NoJob
              /\ jobs'[g].ran
              /\ jobs'[g].run_count = jobs[g].run_count + 1
              /\ jobs'[g].last_tick = now
              /\ jobs'[g].next_tick = NextOccurrence(jobs[g], now)]_vars

\* C3: a successful add(job) puts the job's id in the listed identifiers, a
\* successful remove(id) takes it out, and neither touches another job.
C3_AddRemoveList ==
    [][/\ (last'.op = "add" /\ last'.res = "Ok") =>
              /\ last'.id \in ListIds(jobs')
              /\ \A g \in JobIds \ {last'.id} : jobs'[g] = jobs[g]
       /\ (last'.op = "remove" /\ last'.res = "Ok") =>
              /\ last'.id \notin ListIds(jobs')
              /\ \A g \in JobIds \ {last'.id} : jobs'[g] = jobs[g]]_vars

\* C3 witness: a job was added and then removed while another job stays listed.
C3_Witness == /\ last.op = "remove"
              /\ last.res = "Ok"
              /\ last.id \notin ListIds(jobs)
              /\ ListIds(jobs) # {}

\* C4: two shutdown() calls that return Ok, with one registration of the
\* callback, call the callback exactly once in total.
C4_CallbackOnce == regOk >= 2 => regInvoked = 1

\* C5: when shutdown() returns Ok, every job of its snapshot is gone from the
\* registry (unless a store clone added it again meanwhile), and with no
\* concurrent add the registry is empty.
C5_ShutdownDrains ==
    [][(last'.op = "shutdown" /\ last'.res = "Ok") =>
          /\ \A g \in snap \ concAdded : jobs'[g] = NoJob
          /\ concAdded = {} => ListIds(jobs') = {}]_vars

\* C5 witness: shutdown() returned Ok after a snapshot of all MaxJobs jobs.
C5_Witness == /\ last.op = "shutdown"
              /\ last.res = "Ok"
              /\ last.val = MaxJobs
              /\ ListIds(jobs) = {}

\* C6: time_till_next_job() over an empty registry returns Ok(500 ms).
C6_EmptyDefault ==
    (last.op = "time_till_next_job" /\ ListIds(jobs) = {}) =>
        (last.res = "Ok" /\ last.val = 500)

\* C6 witness: the registry was emptied by a shutdown() that returned Ok, and
\* time_till_next_job() was called on it.
C6_Witness == /\ last.op = "time_till_next_job"
              /\ ListIds(jobs) = {}
              /\ regOk >= 1
              /\ last.val = 500

\* C7: time_till_next_job() over a non-empty registry returns the minimum,
\* over the jobs that are not stopped, of the time to the job's next
\* occurrence, and the result is strictly positive (stated here for
\* registries whose jobs all carry a cron schedule).
C7_MinOverNonStopped ==
    LET live == {g \in ListIds(jobs) : ~jobs[g].stopped} IN
    (/\ last.op = "time_till_next_job"
     /\ live # {}
     /\ \A g \in ListIds(jobs) : jobs[g].schedule # 0) =>
        /\ last.val = 1000 * Min({NextOccurrence(jobs[g], now) - now : g \in live})
        /\ last.val > 0

-----------------------------------------------------------------------------
\* C11: a tick that finds a Repeating job with one remaining repeat due runs
\* it once: run_count is one higher, no repeat remains and next_tick is None;
\* the tick that then scans the exhausted job takes it out of the registry.
C11_RepeatingOnceThenRemoved ==
    [][\A g \in JobIds :
          /\ (last'.op = "tick" /\ Due(g) /\ jobs[g].schedule = 0 /\ jobs[g].remaining = 1) =>
                /\ jobs'[g] # NoJob
                /\ jobs'[g].run_count = jobs[g].run_count + 1
                /\ jobs'[g].remaining = 0
                /\ jobs'[g].next_tick = -1
          /\ (last'.op = "tick" /\ jobs[g] # NoJob /\ jobs[g].next_tick = -1
                /\ inflight[g] = 0) =>
                jobs'[g] = NoJob]_vars

\* C12: a tick never starts an execution of a stopped job, and the tick that
\* scans a stopped job takes it out of the registry.
C12_StoppedRemovedByTick ==
    [][\A g \in JobIds :
          (last'.op = "tick" /\ jobs[g] # NoJob /\ jobs[g].stopped) =>
              /\ inflight'[g] = inflight[g]
              /\ jobs'[g] = NoJob]_vars

\* C13: the callback slot holds one callback. A shutdown() that invokes a
\* callback invokes the one of the latest set_shutdown_handler, never the one
\* it replaced; and a shutdown() that reaches its notification step with a
\* registered callback whose lock is not poisoned does invoke it.
C13_SingleSlot ==
    [][(last'.op = "shutdown" /\ pc = "removing") =>
          /\ (regInvoked' # regInvoked) => last'.id = registered[2]
          /\ (guids = <<>> /\ registered[2] # "None" /\ ~poisoned) =>
                (regInvoked' = regInvoked + 1 /\ last'.id = registered[2])]_vars

\* C13 witness: A was registered, then B, and a shutdown() invoked B.
C13_Witness == /\ last.op = "shutdown"
               /\ last.res = "Ok"
               /\ registered = <<"A", "B">>
               /\ regInvoked = 1
               /\ last.id = "B"

\* C14: once remove_shutdown_handler() cleared the slot, and until the next
\* set_shutdown_handler, a shutdown() invokes no callback; when it reaches its
\* notification step it returns Ok and every job of its snapshot is gone
\* from the registry.
C14_ClearedSlot ==
    [][(last'.op = "shutdown" /\ pc = "removing" /\ registered[2] = "None") =>
          /\ regInvoked' = regInvoked
          /\ guids = <<>> =>
                /\ last'.res = "Ok"
                /\ last'.id = "None"
                /\ \A g \in snap \ concAdded : jobs'[g] = NoJob]_vars

\* C14 witness: A was registered and cleared; a shutdown() over a snapshot of
\* all MaxJobs jobs then returned Ok without a callback and left no job.
C14_Witness == /\ last.op = "shutdown"
               /\ last.res = "Ok"
               /\ last.id = "None"
               /\ registered = <<"A", "None">>
               /\ last.val = MaxJobs
               /\ ListIds(jobs) = {}

\* C21: a removal of shutdown()'s loop that fails ends the call with that
\* error: the registry is as it was, so the jobs later in the snapshot stay
\* registered, and no callback is invoked; a removal after which the loop goes
\* on returned Ok; so a callback is invoked only when no identifier of the
\* snapshot is left to remove and every removal returned Ok.
C21_ShutdownStopsAtFailure ==
    [][/\ (last'.op = "shutdown" /\ pc = "removing" /\ guids # <<>>) =>
             /\ last'.res = JobStoreRemove(jobs, Head(guids)).res
             /\ last'.res = "CantRemove"
             /\ pc' = "idle"
             /\ jobs' = jobs
             /\ \A i \in 2..Len(guids) : jobs'[guids[i]] = jobs[guids[i]]
             /\ regInvoked' = regInvoked
       /\ (last'.op = "shutdown_remove" /\ pc = "removing") =>
             (last'.res = "Ok" /\ jobs'[last'.id] = NoJob)
       /\ (pc = "removing" /\ regInvoked' # regInvoked) =>
             (guids = <<>> /\ last'.op = "shutdown")]_vars

\* C21 witness: shutdown() over a snapshot of all MaxJobs jobs returned
\* CantRemove with a callback registered; a job is still registered and the
\* callback was not invoked.
C21_Witness == /\ last.op = "shutdown"
               /\ last.res = "CantRemove"
               /\ last.val = MaxJobs
               /\ ListIds(jobs) # {}
               /\ shutdown_handler # "None"
               /\ regInvoked = 0

\* C23: tick returns Ok and changes nothing: the registry and every job's
\* run state, the executions in flight, the callback slot and its counters,
\* and both metadata stores are after the tick what they were before it.
C23_TickChangesNothing ==
    [][last'.op = "tick" =>
          /\ last'.res = "Ok"
          /\ jobs' = jobs
          /\ inflight' = inflight
          /\ shutdownVars' = shutdownVars
          /\ loopVars' = loopVars
          /\ simpleVars' = simpleVars
          /\ pgVars' = pgVars]_vars

\* C23 witness: a tick ran over a registry that holds a due job and a
\* stopped job, and both are still registered.
C23_Witness == /\ last.op = "tick"
               /\ last.res = "Ok"
               /\ \E g \in JobIds : Due(g)
               /\ \E g \in JobIds : jobs[g] # NoJob /\ jobs[g].stopped

\* C15: add and remove return what the job store returned: CantAdd when the
\* store rejects the add, CantRemove when it rejects the remove, and the
\* failed call leaves the registry, so the registered ids, as it was.
C15_StoreErrorsPropagate ==
    [][/\ last'.op = "add" =>
             /\ last'.res = JobStoreAdd(jobs, last'.id, NoJob).res
             /\ last'.res # "Ok" =>
                   (last'.res = "CantAdd" /\ jobs' = jobs /\ ListIds(jobs') = ListIds(jobs))
       /\ last'.op = "remove" =>
             /\ last'.res = JobStoreRemove(jobs, last'.id).res
             /\ last'.res # "Ok" =>
                   (last'.res = "CantRemove" /\ jobs' = jobs /\ ListIds(jobs') = ListIds(jobs))]_vars

\* C15 witness: remove() of an unknown id returned CantRemove while another
\* job is registered.
C15_Witness == /\ last.op = "remove"
               /\ last.res = "CantRemove"
               /\ jobs[last.id] = NoJob
               /\ ListIds(jobs) # {}

\* C19: once started, the loop never ends: from its sleep it always reaches
\* its next tick, and from a tick, whether it returns Ok or Err, it always
\* reaches the next sleep and so the next tick.
C19_LoopRunsForever ==
    /\ [][loopPc # "none" => loopPc' \in {"sleep", "tick"}]_vars
    /\ [](loopPc = "sleep" => <>(loopPc = "tick"))
    /\ [](loopPc = "tick" => <>(loopPc = "sleep"))
    /\ []((last.op = "tick" /\ last.res = "Err") => <>(loopPc = "tick"))

\* C19 witness: the loop's tick returned an error and the loop is at its
\* next sleep.
C19_Witness == /\ last.op = "tick"
               /\ last.res = "Err"
               /\ loopPc = "sleep"

-----------------------------------------------------------------------------
\* Claims about SimpleMetadataStore

\* C8: add_or_update(d) followed by get(d.id) returns Some(d), equal to d in
\* every field.
C8_SimpleRoundTrip ==
    [][(/\ sLast.op = "add_or_update"
        /\ sLast.res = "Ok"
        /\ sLast'.op = "get"
        /\ sLast'.id = sLast.id) => sLast'.val = {sLast.val}]_vars

\* C8 witness: a get returned the interval-type record stored under its id.
C8_Witness ==
    /\ sLast.op = "get"
    /\ sLast.val # {}
    /\ \E d \in sLast.val : d.job_type = 1 /\ d.id = {sLast.id} /\ data[sLast.id] = d

\* A step of the SimpleMetadataStore (the clock's steps leave it alone)
SimpleStep == sLast' # sLast \/ data' # data \/ inited' # inited

\* C16: the map holds at most one record per id, filed under its own id;
\* add_or_update(d) replaces the record under d.id and delete(id) removes it,
\* neither touches a record under another id, no other call changes the map
\* (set_next_tick apart, which is no part of the sequences C16 is about), and
\* get(id) returns the record the map holds under id, or None.
C16_UpsertKeyed ==
    [][/\ \A i \in StoreIds : data'[i] # NoData => data'[i].id = {i}
       /\ SimpleStep =>
             /\ (sLast'.op = "add_or_update" /\ sLast'.res = "Ok") =>
                   data' = [data EXCEPT ![sLast'.id] = sLast'.val]
             /\ sLast'.op = "delete" =>
                   data' = [data EXCEPT ![sLast'.id] = NoData]
             /\ sLast'.op = "get" =>
                   sLast'.val = IF data[sLast'.id] = NoData THEN {} ELSE {data[sLast'.id]}
             /\ (sLast'.op \notin {"add_or_update", "delete", "set_next_tick"}
                   \/ sLast'.res # "Ok") =>
                   data' = data]_vars

\* C16 witness: delete(id) left no record under id and a record under
\* another id in place.
C16_Witness == /\ sLast.op = "delete"
               /\ data[sLast.id] = NoData
               /\ \E j \in StoreIds : data[j] # NoData /\ data[j].id = {j}

\* The stored records that are due at time t: next_tick positive and earlier
DueRecords(t) ==
    {k \in StoreIds : data[k] # NoData /\ data[k].next_tick > 0 /\ data[k].next_tick < t}

\* C18: list_next_ticks() returns the due records and no others.
C18_ListDueOnly ==
    [][(SimpleStep /\ sLast'.op = "list_next_ticks") =>
          {r.id : r \in sLast'.val} = {data[k].id : k \in DueRecords(now)}]_vars

\* C25 as claimed: set_next_tick(id, t) on an id that is not stored returns
\* UpdateJobData and changes nothing; on a stored id it returns Ok, sets that
\* record's next_tick to the timestamp of t and changes no other field and no
\* other record.
C25_SetNextTickTimestamp ==
    [][(SimpleStep /\ sLast'.op = "set_next_tick") =>
          IF data[sLast'.id] = NoData
          THEN sLast'.res = "UpdateJobData" /\ data' = data
          ELSE /\ sLast'.res = "Ok"
               /\ data'[sLast'.id].next_tick = sLast'.val
               /\ \A f \in DOMAIN data[sLast'.id] \ {"next_tick"} :
                     data'[sLast'.id][f] = data[sLast'.id][f]
               /\ \A i \in StoreIds \ {sLast'.id} : data'[i] = data[i]]_vars

\* C25, amended: as above, with next_tick set to the timestamp of t cast to
\* the unsigned width of the field: the timestamp itself when t is not before
\* the epoch, and the timestamp plus 2^width when it is.
C25_SetNextTickCast ==
    [][(SimpleStep /\ sLast'.op = "set_next_tick") =>
          IF data[sLast'.id] = NoData
          THEN sLast'.res = "UpdateJobData" /\ data' = data /\ inited' = inited
          ELSE /\ sLast'.res = "Ok"
               /\ data'[sLast'.id].next_tick =
                     IF sLast'.val >= 0 THEN sLast'.val ELSE sLast'.val + Wrap
               /\ \A f \in DOMAIN data[sLast'.id] \ {"next_tick"} :
                     data'[sLast'.id][f] = data[sLast'.id][f]
               /\ \A i \in StoreIds \ {sLast'.id} : data'[i] = data[i]
               /\ inited' = inited]_vars

\* C25 witness: set_next_tick with a time one second before the epoch
\* returned Ok on a stored record whose last_tick is set; another record is
\* stored beside it.
C25_Witness == /\ sLast.op = "set_next_tick"
               /\ sLast.res = "Ok"
               /\ sLast.val = -1
               /\ data[sLast.id] # NoData
               /\ data[sLast.id].next_tick = Wrap - 1
               /\ data[sLast.id].last_tick # {}
               /\ \E j \in StoreIds \ {sLast.id} : data[j] # NoData

\* The futures that have completed
Done == {f \in Futs : futs[f].pc = "done"}

\* The completed futures, run one after the other in the given order from
\* the map m, give each its result and leave the store's map
RECURSIVE Replays(_, _)
Replays(order, m) ==
    IF order = <<>> THEN m = data
    ELSE LET r == Body(futs[Head(order)].op, m) IN
         /\ r.ret = futs[Head(order)].ret
         /\ Replays(Tail(order), r.data)

\* C24: under every interleaving, a get returned None or the whole record
\* an add_or_update was called with; and the completed futures have some
\* sequential order that, from the empty map, gives every get its result and
\* the store its content, so no write is lost.
C24_Serialised ==
    /\ \A f \in Done :
          futs[f].op.name = "get" =>
             \/ futs[f].ret = {}
             \/ \E g \in Futs :
                   /\ futs[g].pc # "none"
                   /\ futs[g].op.name = "add_or_update"
                   /\ futs[f].ret = {futs[g].op.d}
    /\ \E order \in Orders(Done) : Replays(order, [i \in StoreIds |-> NoData])

\* C24 witness: all MaxFut futures completed; two of them wrote different
\* records under one id, and a get returned a record.
C24_Witness ==
    /\ Done = Futs
    /\ \E f, g \in Futs :
          /\ futs[f].op.name = "add_or_update"
          /\ futs[g].op.name = "add_or_update"
          /\ futs[f].op.id = futs[g].op.id
          /\ futs[f].op.d # futs[g].op.d
    /\ \E h \in Futs : futs[h].op.name = "get" /\ futs[h].ret # {}

-----------------------------------------------------------------------------
\* Claims about PostgresMetadataStore

\* The fields of JobStoredData that add_or_update stores
StoredFieldsEq(a, b) ==
    /\ a.id = b.id
    /\ a.last_updated = b.last_updated
    /\ a.next_tick = b.next_tick
    /\ a.job_type = b.job_type
    /\ a.count = b.count
    /\ a.ran = b.ran
    /\ a.stopped = b.stopped
    /\ a.job = b.job
    /\ a.extra = b.extra

\* C9: the row add_or_update(d) wrote, read back by get(d.id) and converted
\* by From<Row>, is a record equal to d in every stored field.
C9_PgRoundTrip ==
    [][(/\ pLast.op = "add_or_update"
        /\ pLast.val = TRUE
        /\ pLast'.op = "get"
        /\ pLast'.id = pLast.id
        /\ pLast'.res = "Ok") =>
            \E d \in pLast'.val : StoredFieldsEq(d, pLast.arg)]_vars

\* C10: set_next_and_last_tick(id, next, last) on a stored id, followed by
\* get(id), returns a record whose next_tick and last_tick are next and last
\* (next = None reads back as 0).
C10_PgSetTicks ==
    [][(/\ pLast.op = "set_next_and_last_tick"
        /\ pLast.res = "Ok"
        /\ pLast.val = TRUE
        /\ pLast'.op = "get"
        /\ pLast'.id = pLast.id
        /\ pLast'.res = "Ok") =>
            \E d \in pLast'.val :
                /\ d.next_tick = UnwrapOr(pLast.arg.next, 0)
                /\ d.last_tick = pLast.arg.last]_vars

-----------------------------------------------------------------------------
\* Claims about init() of the metadata stores

\* A step of the PostgresMetadataStore
PgStep == pLast' # pLast \/ store' # store \/ rows' # rows

\* C17: for both stores, an init() that returns Ok leaves the store inited and
\* inited() returns the store's flag; an init() on a store that is inited
\* returns Ok, initialises no connection, creates no table, and leaves the
\* store's state and its data as they were.
C17_InitIdempotent ==
    [][/\ (SimpleStep /\ sLast'.op = "init") =>
             /\ sLast'.res = "Ok"
             /\ inited'
             /\ data' = data
             /\ inited => inited' = inited
       /\ (SimpleStep /\ sLast'.op = "inited") =>
             (sLast'.val = inited /\ inited' = inited /\ data' = data)
       /\ (PgStep /\ pLast'.op = "init" /\ pLast'.res = "Ok") => store' = "Inited"
       /\ (PgStep /\ pLast'.op = "inited") =>
             (pLast'.val = (store = "Inited") /\ store' = store /\ rows' = rows)
       /\ (PgStep /\ pLast'.op = "init" /\ store = "Inited") =>
             /\ pLast'.res = "Ok"
             /\ pLast'.val = {}
             /\ store' = store
             /\ rows' = rows]_vars

\* C17 witness: both stores hold a record and are inited; the last init() of
\* the Postgres store found it inited and did nothing.
C17_Witness == /\ pLast.op = "init"
               /\ pLast.val = {}
               /\ store = "Inited"
               /\ rows[1] # NoRow
               /\ sLast.op = "init"
               /\ inited
               /\ data[1] # NoData

\* C20: an init() of the Postgres store that fails (the connection, or the
\* table creation with CantInit) leaves the store Created and its rows alone;
\* inited() returns false on a Created store; every init() on a Created
\* store initialises the connection again, and one that returns Ok leaves the
\* store Inited.
C20_InitFailureRetry ==
    [][/\ (PgStep /\ pLast'.op = "init" /\ pLast'.res # "Ok") =>
             /\ pLast'.res \in {"Err", "CantInit"}
             /\ store = "Created"
             /\ store' = "Created"
             /\ rows' = rows
       /\ (PgStep /\ pLast'.op = "init" /\ store = "Created") =>
             /\ "connect" \in pLast'.val
             /\ pLast'.res = "Ok" <=> store' = "Inited"
       /\ (PgStep /\ pLast'.op = "inited" /\ store = "Created") =>
             pLast'.val = FALSE]_vars

\* C20 witness: the table creation failed with CantInit after the connection
\* was initialised, and the store is still Created.
C20_Witness == /\ pLast.op = "init"
               /\ pLast.res = "CantInit"
               /\ pLast.val = {"connect", "create"}
               /\ store = "Created"

-----------------------------------------------------------------------------
\* Claims about the un-initialised PostgresMetadataStore

\* The error each data operation returns on a Created store
CreatedError(op) ==
    CASE op = "get" -> "GetJobData"
      [] op = "add_or_update" -> "UpdateJobData"
      [] op = "delete" -> "CantRemove"
      [] op = "list_next_ticks" -> "CantListNextTicks"
      [] op = "set_next_and_last_tick" -> "UpdateJobData"
      [] op = "time_till_next_job" -> "CouldNotGetTimeUntilNextTick"

DataOps == {"get", "add_or_update", "delete", "list_next_ticks",
            "set_next_and_last_tick", "time_till_next_job"}

\* C22: on a Created store every data operation returns its error, sends no
\* statement to the database, and leaves the store and its rows as they were.
C22_CreatedRejects ==
    [][(PgStep /\ store = "Created" /\ pLast'.op \in DataOps) =>
          /\ pLast'.res = CreatedError(pLast'.op)
          /\ ~queried'
          /\ store' = "Created"
          /\ rows' = rows]_vars

\* C22 witness: time_till_next_job() on a Created store returned
\* CouldNotGetTimeUntilNextTick and sent no statement.
C22_Witness == /\ pLast.op = "time_till_next_job"
               /\ pLast.res = "CouldNotGetTimeUntilNextTick"
               /\ store = "Created"
               /\ ~queried

====
